---- MODULE Spec2Model ----
(***************************************************************************)
(* Realtime session-coordination layer of the collaborative whiteboard:    *)
(* the socket.io room registry and relay of backend/src/socket.js and the  *)
(* permission / object / undo state of the Board component                 *)
(* (frontend/src/pages/Auth.tsx).                                          *)
(***************************************************************************)
EXTENDS Integers, Sequences, FiniteSets, TLC

(***************************************************************************)
(* Universe of the model.                                                  *)
(***************************************************************************)
\* socket ids; socket.io assigns a fresh id to every connection, so an id
\* is connected at most once in a behaviour
Conns == {"c1", "c2", "c3"}

\* board ids sent in joinRoom / chatMessage payloads
RoomIds == {"r1", "r2"}

\* the value of a boardId missing from a payload, and of socket.currentRoom
\* before any joinRoom (undefined, falsy)
NoRoom == "undefined"

BoardIds == RoomIds \cup {NoRoom}

\* payloads of draw / addObject events as the server sees them (opaque)
\* an object id is `${prefix}-${Date.now()}`: the pair <<prefix, time>>
NoObj == [id |-> <<"none", 0>>, type |-> "none", text |-> ""]

SrvPayloads == { [id |-> <<"line", 1>>, type |-> "line", text |-> ""],
                 [id |-> <<"sticky", 1>>, type |-> "sticky", text |-> "a"] }

\* payloads of cursorMove: { x, y, name, color, isDrawing }; name and color
\* are display attributes and are left out
CursorPayloads == { [x |-> 1, y |-> 2, isDrawing |-> TRUE] }

\* payloads of chatMessage: { boardId, ...msg }, with and without a boardId
ChatPayloads == { [boardId |-> "r1", id |-> "m1", text |-> "hi"],
                  [id |-> "m1", text |-> "hi"] }

\* authenticated users (useAuthStore().user.id) and the owner_id column of
\* the boards table
Users == {"u1", "u2"}

boardOwner == [b \in RoomIds |-> IF b = "r1" THEN "u1" ELSE "u2"]

VARIABLES
    status,        \* socket lifecycle: "idle" (not yet connected), "connected", "closed"
    currentRoom,   \* socket.currentRoom
    sockRooms,     \* socket.io adapter: the rooms each socket has join()ed
    roomUsers,     \* const roomUsers = {}: boardId -> member ids (keys of the entry)
    srvOut,        \* events emitted by the most recent server handler, in order
    lastRoomUsers, \* payload of the most recent roomUsers broadcast, per room
    srvIn,         \* the event the most recent server handler was called with
    \* ---- one Board component per connection (Auth.tsx) ----
    userOf,          \* useAuthStore().user.id of the participant
    boardOf,         \* useParams().boardId of the mounted Board
    inbox,           \* server -> client events in flight, FIFO per socket
    mySocketId,      \* useState('') mySocketId
    hostCheck,       \* the ownership fetch: "pending" or "done"
    isHost,          \* useState(false) isHost
    isAllowedToDraw, \* useState(false) isAllowedToDraw
    allowedUserIds,  \* useState(new Set()) allowedUserIds
    cliRoomUsers,    \* useState([]) roomUsers, as the set of listed ids
    permHist,        \* history of the Allow clicks (see PermStep)
    \* ---- canvas state of each Board ----
    pages,           \* useState pages: sequence of [id, objects]
    currentPageId,   \* useState('page-1') currentPageId
    undoStack,       \* useState([]) undoStack
    redoStack,       \* useState([]) redoStack
    tool,            \* useState('pen') tool
    isDrawing,       \* isDrawingRef.current
    shapeStart,      \* shapeStart !== null
    textPos,         \* textPos !== null
    editingStickyId, \* useState(null) editingStickyId
    imgLoad,         \* the closure of a handleImageUpload whose img.onload is pending
    now,             \* the last value of Date.now() each Board has read
    ops,             \* number of object additions, clears and sticky edits so far, over all Boards
    cliOut,          \* what the most recent user action of a Board emitted
    hist,            \* the last two canvas steps of one Board (see Note)
    received,        \* the objects each Board has been sent by drawUpdate / objectAdded
    remoteCursors,   \* useState({}) remoteCursors: userId -> the last cursorUpdate
    chatMessages,    \* useState([]) chatMessages
    sent,            \* the chat messages each socket has emitted, in order
    typingUsers,     \* useState([]) typingUsers
    typingTimers,    \* the pending setTimeout callbacks of the typing handler
    clock,           \* the time, in seconds
    lastTyping,      \* per Board and name, the time of the last typing event
    boardLoad,       \* the fetch of the board's content: "pending" or "done"
    boardName,       \* useState('Untitled Board') boardName
    store,           \* the boards table: the row of each board
    loaded,          \* the last answer of GET /api/boards/:boardId to each client
    lastSave         \* the last POST /api/boards/:boardId: its number, user and body

srvVars == <<status, currentRoom, sockRooms, roomUsers, srvOut, lastRoomUsers, srvIn>>

propVars == <<userOf, boardOf>>

roleVars == <<mySocketId, hostCheck, isHost, isAllowedToDraw, allowedUserIds,
              cliRoomUsers, permHist>>

canvasVars == <<pages, currentPageId, undoStack, redoStack, tool, isDrawing,
                shapeStart, textPos, editingStickyId, imgLoad, now, ops, cliOut, hist>>

typingVars == <<typingUsers, typingTimers, clock, lastTyping>>

storeVars == <<boardName, store, loaded, lastSave>>

peerVars == <<received, remoteCursors, chatMessages, sent, typingVars, boardLoad, storeVars>>

cliVars == <<propVars, peerVars, inbox, roleVars, canvasVars>>

vars == <<srvVars, cliVars>>

(***************************************************************************)
(* socket.io primitives                                                    *)
(***************************************************************************)
\* io.to(b): every socket that is in socket.io room b
IoTo(rooms, b) == {x \in Conns : b \in rooms[x]}

SocketToAll(rooms, c, b) == IoTo(rooms, b)

\* socket.to(b): io.to(b) without the sending socket
SocketTo(rooms, c, b) == IoTo(rooms, b) \ {c}

\* an emitted event: its name, the room and socket it comes from, the sockets
\* it is sent to, and its payload (users of roomUsers, the object of
\* drawUpdate / objectAdded, granted of drawPermission)
Msg(ev, room, from, to) ==
    [ev |-> ev, room |-> room, from |-> from, to |-> to,
     users |-> {}, data |-> NoObj, granted |-> FALSE]

\* roomUsers[boardId] as a set of member ids ({} when there is no entry)
Entry(ru, b) == IF b \in DOMAIN ru THEN ru[b] ELSE {}

\* roomUsers[boardId][socket.id] = user (creating the entry when absent)
PutMember(ru, b, c) ==
    [x \in (DOMAIN ru) \cup {b} |-> IF x = b THEN Entry(ru, b) \cup {c} ELSE ru[x]]

\* delete roomUsers[boardId][socket.id]; delete roomUsers[boardId] when empty
DropMember(ru, b, c) ==
    IF Entry(ru, b) \ {c} = {}
    THEN [x \in (DOMAIN ru) \ {b} |-> ru[x]]
    ELSE [ru EXCEPT ![b] = @ \ {c}]

SetLast(lr, b, users) ==
    [x \in (DOMAIN lr) \cup {b} |-> IF x = b THEN users ELSE lr[x]]

\* an event arriving at the server: the socket, the event name, the boardId
\* of its payload (undefined when the payload has none) and the payload
In(c, ev, b, data) == [from |-> c, ev |-> ev, room |-> b, data |-> data]

NoIn == In("none", "none", NoRoom, NoObj)

\* const { boardId } = payload
BoardIdOf(p) == IF "boardId" \in DOMAIN p THEN p.boardId ELSE NoRoom

RestWithoutText(p) == [k \in (DOMAIN p) \ {"boardId", "text"} |-> p[k]]

\* const { boardId, ...msg } = payload
RestOf(p) == [k \in (DOMAIN p) \ {"boardId"} |-> p[k]]

(***************************************************************************)
(* Server handlers (socket.js)                                             *)
(***************************************************************************)
InitServer ==
    /\ status = [c \in Conns |-> "idle"]
    /\ currentRoom = [c \in Conns |-> NoRoom]
    /\ sockRooms = [c \in Conns |-> {}]
    /\ roomUsers = << >>
    /\ srvOut = << >>
    /\ lastRoomUsers = << >>
    /\ srvIn = NoIn

NoId == <<"none", 0>>

NoLoad == [pending |-> FALSE, objects |-> << >>, page |-> "page-1"]

NoOut == [by |-> "none", canDraw |-> FALSE, evs |-> << >>, mutated |-> FALSE]

NoSnap == [objs |-> << >>, undo |-> << >>, redo |-> << >>]

NoHist == [c |-> "none", last |-> "none", base |-> NoSnap]

NoPerm == [phase |-> "none", by |-> "none", target |-> "none",
           allowedBefore |-> {}, capBefore |-> FALSE]

\* the useState initial values of the canvas of a freshly mounted Board
\* user.name of the participants who type
Names == {"Ann", "Bob"}

\* const [boardName, setBoardName] = useState('Untitled Board')
UntitledBoard == "Untitled Board"

\* the columns of the boards table that initDB creates (CREATE TABLE IF NOT
\* EXISTS boards ...); seeds/init.sql creates the same table
Columns == {"id", "owner_id", "objects", "created_at", "updated_at"}

\* the row POST /api/boards inserts for a new board; a column the table does
\* not have reads as undefined, here the empty list and the empty string,
\* which GET /api/boards/:boardId treats alike (b.pages && b.pages.length > 0,
\* b.board_name || 'Untitled Board')
NewRow(b) ==
    [owner_id |-> boardOwner[b], objects |-> << >>, pages |-> << >>,
     board_name |-> "", updated_at |-> 0]

NoData == [boardId |-> "none", ownerId |-> "none", objects |-> << >>, pages |-> << >>,
           boardName |-> "", updatedAt |-> 0]

NoSave == [n |-> 0, user |-> "none", board |-> "none", pages |-> << >>, boardName |-> ""]

InitPages ==
    /\ pages = [c \in Conns |-> << [id |-> "page-1", objects |-> << >>] >>]
    /\ currentPageId = [c \in Conns |-> "page-1"]
    /\ undoStack = [c \in Conns |-> << >>]
    /\ redoStack = [c \in Conns |-> << >>]
    /\ tool = [c \in Conns |-> "pen"]
    /\ isDrawing = [c \in Conns |-> FALSE]
    /\ shapeStart = [c \in Conns |-> FALSE]
    /\ textPos = [c \in Conns |-> FALSE]
    /\ editingStickyId = [c \in Conns |-> NoId]
    /\ imgLoad = [c \in Conns |-> NoLoad]
    /\ now = [c \in Conns |-> 0]
    /\ ops = 0
    /\ cliOut = NoOut
    /\ hist = NoHist
    /\ received = [c \in Conns |-> {}]
    /\ remoteCursors = [c \in Conns |-> << >>]
    /\ chatMessages = [c \in Conns |-> << >>]
    /\ sent = [c \in Conns |-> << >>]
    /\ typingUsers = [c \in Conns |-> << >>]
    /\ typingTimers = [c \in Conns |-> {}]
    /\ clock = 0
    /\ lastTyping = [c \in Conns |-> [n \in Names |-> {}]]
    /\ boardLoad = [c \in Conns |-> "pending"]
    /\ boardName = [c \in Conns |-> UntitledBoard]
    /\ store = [b \in RoomIds |-> NewRow(b)]
    /\ loaded = [c \in Conns |-> NoData]
    /\ lastSave = NoSave

\* the useState initial values of a freshly mounted Board
AllowedFromEarlierVisit(c) == TRUE

\* const [isAllowedToDraw, setIsAllowedToDraw] = useState(false)
AllowedAtMount(c) == FALSE

InitBoard ==
    /\ inbox = [c \in Conns |-> << >>]
    /\ mySocketId = [c \in Conns |-> ""]
    /\ hostCheck = [c \in Conns |-> "pending"]
    /\ isHost = [c \in Conns |-> FALSE]
    /\ isAllowedToDraw = [c \in Conns |-> AllowedAtMount(c)]
    /\ allowedUserIds = [c \in Conns |-> {}]
    /\ cliRoomUsers = [c \in Conns |-> {}]
    /\ permHist = NoPerm
    /\ InitPages

Init ==
    /\ InitServer
    /\ InitBoard
    /\ userOf = [c \in Conns |-> "u1"]
    /\ boardOf = [c \in Conns |-> "r1"]

\* io.on('connection')
Connect(c) ==
    /\ status[c] = "idle"
    /\ status' = [status EXCEPT ![c] = "connected"]
    /\ srvOut' = << >>
    /\ srvIn' = In(c, "connection", NoRoom, NoObj)
    /\ UNCHANGED <<currentRoom, sockRooms, roomUsers, lastRoomUsers>>

\* socket.on('joinRoom', ({ boardId, userName, userColor }) => ...)
JoinRoom(c, b) ==
    /\ status[c] = "connected"
    /\ sockRooms' = [sockRooms EXCEPT ![c] = @ \cup {b}]
    /\ roomUsers' = PutMember(roomUsers, b, c)
    /\ currentRoom' = [currentRoom EXCEPT ![c] = b]
    /\ srvOut' = << Msg("userJoined", b, c, SocketTo(sockRooms', c, b)),
                    [Msg("roomUsers", b, c, IoTo(sockRooms', b))
                        EXCEPT !.users = roomUsers'[b]] >>
    /\ lastRoomUsers' = SetLast(lastRoomUsers, b, roomUsers'[b])
    /\ srvIn' = In(c, "joinRoom", b, NoObj)
    /\ UNCHANGED status

\* the relay handlers: if (!boardId) return; socket.to(boardId).emit(out, data)
Relay(c, out, data) ==
    /\ status[c] = "connected"
    /\ srvOut' = IF currentRoom[c] = NoRoom
                 THEN << >>
                 ELSE << [Msg(out, currentRoom[c], c,
                              SocketTo(sockRooms, c, currentRoom[c]))
                             EXCEPT !.data = data] >>
    /\ UNCHANGED <<status, currentRoom, sockRooms, roomUsers, lastRoomUsers>>

\* socket.on('draw', (data) => ...)
Draw(c, data) ==
    /\ Relay(c, "drawUpdate", data)
    /\ srvIn' = In(c, "draw", NoRoom, data)

\* socket.on('addObject', (data) => ...)
AddObject(c, data) ==
    /\ Relay(c, "objectAdded", data)
    /\ srvIn' = In(c, "addObject", NoRoom, data)

\* socket.on('cursorMove', ({ x, y, name, color }) => ...): the update is
\* built from socket.id, x and y
CursorMove(c, p) ==
    /\ Relay(c, "cursorUpdate", [userId |-> c, x |-> p.x, y |-> p.y])
    /\ srvIn' = In(c, "cursorMove", NoRoom, p)

\* socket.on('chatMessage', ({ boardId, ...msg }) => ...)
ChatMessage(c, p) ==
    LET boardId == BoardIdOf(p)
    IN  /\ status[c] = "connected"
        /\ srvOut' = IF boardId = NoRoom
                     THEN << >>
                     ELSE << [Msg("chatMessage", boardId, c,
                                  SocketTo(sockRooms, c, boardId))
                                 EXCEPT !.data = RestOf(p)] >>
        /\ srvIn' = In(c, "chatMessage", boardId, p)
        /\ UNCHANGED <<status, currentRoom, sockRooms, roomUsers, lastRoomUsers>>

\* socket.on('disconnect', () => ...); the socket has left its rooms when
\* the handler runs
Disconnect(c) ==
    LET b == currentRoom[c]
        rooms == [sockRooms EXCEPT ![c] = {}]
        left == Entry(roomUsers, b) \ {c}
    IN  /\ status[c] = "connected"
        /\ status' = [status EXCEPT ![c] = "closed"]
        /\ sockRooms' = rooms
        /\ IF b # NoRoom /\ b \in DOMAIN roomUsers
           THEN /\ roomUsers' = DropMember(roomUsers, b, c)
                /\ srvOut' =
                     << Msg("cursorRemove", b, c, IoTo(rooms, b)) >>
                     \o (IF c \in roomUsers[b]
                         THEN << Msg("userLeft", b, c, IoTo(rooms, b)) >>
                         ELSE << >>)
                     \o << [Msg("roomUsers", b, c, IoTo(rooms, b))
                              EXCEPT !.users = left] >>
                /\ lastRoomUsers' = SetLast(lastRoomUsers, b, left)
           ELSE /\ srvOut' = << >>
                /\ UNCHANGED <<roomUsers, lastRoomUsers>>
        /\ srvIn' = In(c, "disconnect", NoRoom, NoObj)
        /\ UNCHANGED currentRoom

\* the server alone, driven by arbitrary socket.io clients
NextRooms ==
    \/ \E c \in Conns : Connect(c) /\ UNCHANGED cliVars
    \/ \E c \in Conns, b \in BoardIds : JoinRoom(c, b) /\ UNCHANGED cliVars
    \/ \E c \in Conns, d \in SrvPayloads : Draw(c, d) /\ UNCHANGED cliVars
    \/ \E c \in Conns, d \in SrvPayloads : AddObject(c, d) /\ UNCHANGED cliVars
    \/ \E c \in Conns, p \in CursorPayloads : CursorMove(c, p) /\ UNCHANGED cliVars
    \/ \E c \in Conns, p \in ChatPayloads : ChatMessage(c, p) /\ UNCHANGED cliVars
    \/ \E c \in Conns : Disconnect(c) /\ UNCHANGED cliVars

Spec == Init /\ [][NextRooms]_vars

(***************************************************************************)
(* Board component: socket effect, host detection, permission panel        *)
(* (Auth.tsx)                                                              *)
(***************************************************************************)
\* server events whose Board handler changes modelled state; userJoined and
\* userLeft only raise a toast
InboxEvents == {"roomUsers", "drawUpdate", "objectAdded", "drawPermission",
                "cursorUpdate", "cursorRemove", "stickyUpdated", "chatMessage"}

\* the transport: every emitted event is queued, in order, at each recipient
Deliver(inb, out) ==
    [x \in Conns |-> inb[x] \o SelectSeq(out, LAMBDA m : x \in m.to /\ m.ev \in InboxEvents)]

\* const canDraw = isHost || isAllowedToDraw
CanDraw(c) == isHost[c] \/ isAllowedToDraw[c]

\* the Board is mounted and its socket has connected
Mounted(c) == status[c] = "connected" /\ mySocketId[c] # ""

\* (pages.find(p => p.id === currentPageId) || pages[0]).objects
ObjectsOf(pgs, pid) ==
    LET hit == SelectSeq(pgs, LAMBDA p : p.id = pid)
    IN  IF hit # << >> THEN Head(hit).objects ELSE pgs[1].objects

Objects(c) == ObjectsOf(pages[c], currentPageId[c])

\* p.objects of the page with id pid, as the updater of setObjects is given
\* it (page ids are distinct)
PageObjects(pgs, pid) ==
    LET hit == SelectSeq(pgs, LAMBDA p : p.id = pid)
    IN  IF hit # << >> THEN Head(hit).objects ELSE << >>

\* setObjects of the render whose currentPageId is pid, objs being the new
\* sequence or the result of the updater on PageObjects(pgs, pid):
\* setPages(prev => prev.map(p => p.id === pid ? {...p, objects: objs} : p))
SetObjects(pgs, pid, objs) ==
    [i \in DOMAIN pgs |-> IF pgs[i].id = pid
                          THEN [pgs[i] EXCEPT !.objects = objs]
                          ELSE pgs[i]]

\* the socket effect runs after the first render: its handlers keep the
\* setObjects of that render, whose currentPageId is 'page-1'
SocketPageId(c) == "page-1"

\* { id: `${prefix}-${Date.now()}`, type, text }, Date.now() returning t
MkObj(t, prefix, type, text) == [id |-> <<prefix, t>>, type |-> type, text |-> text]

EvWithoutObject(ev, data) == [ev |-> ev, data |-> NoObj]

\* socketRef.current?.emit(ev, data)
Ev(ev, data) == [ev |-> ev, data |-> data]

\* of the events a Board emits after joinRoom (presenceUpdate, draw,
\* addObject, stickyUpdate, setDrawPermission) the ones socket.js listens to
Listeners == {"draw", "addObject", "chatMessage"}

\* socketRef.current?.emit(...) for each event of evs, and the server's
\* handling of it; a handler of the Board emits at most one event that the
\* server listens to; an event without a listener is dropped
Send(c, evs) ==
    LET heard == SelectSeq(evs, LAMBDA e : e.ev \in Listeners)
    IN  IF heard = << >>
        THEN UNCHANGED <<srvVars, inbox>>
        ELSE /\ IF Head(heard).ev = "draw"
                THEN Draw(c, Head(heard).data)
                ELSE IF Head(heard).ev = "addObject"
                THEN AddObject(c, Head(heard).data)
                ELSE ChatMessage(c, Head(heard).data)
             /\ inbox' = Deliver(inbox, srvOut')

\* the record of the last user action that emitted an event or changed the
\* objects of the current page: its Board, whether canDraw held, the events
\* it emitted, and whether it changed the objects
Out(c, evs) ==
    LET mutated == ObjectsOf(pages'[c], currentPageId[c]) # Objects(c)
    IN  IF evs = << >> /\ ~mutated
        THEN cliOut
        ELSE [by |-> c, canDraw |-> CanDraw(c), mutated |-> mutated,
              evs |-> [i \in DOMAIN evs |-> evs[i].ev]]

Snap(c) == [objs |-> Objects(c), undo |-> undoStack[c], redo |-> redoStack[c]]

\* the local mutating actions
Mutations == {"stroke", "shape", "sticky", "text", "image", "clear"}

\* an undo on an empty undo stack, a redo on an empty redo stack
NoOps == {"undo0", "redo0"}

\* the history of the canvas: the Board c and the kind of the last mutating
\* action or undo, with c's canvas before it (base); a redo that directly
\* follows an undo of c keeps the base of that undo, and an undo or redo of c
\* on an empty stack is recorded with the canvas it found; any other change
\* of c's canvas ends the history
Note(c, kind) ==
    IF kind \in Mutations \cup {"undo"}
    THEN [c |-> c, last |-> kind, base |-> Snap(c)]
    ELSE IF hist.c # c THEN hist
    ELSE IF kind \in NoOps THEN [c |-> c, last |-> kind, base |-> Snap(c)]
    ELSE IF kind = "redo" /\ hist.last = "undo" THEN [hist EXCEPT !.last = "redo"]
    ELSE NoHist

\* socket.on('connect'): setMySocketId(socket.id); socket.emit('joinRoom', ...)
OnConnect(c) ==
    /\ status[c] = "connected"
    /\ mySocketId[c] = ""
    /\ mySocketId' = [mySocketId EXCEPT ![c] = c]
    /\ JoinRoom(c, boardOf[c])
    /\ inbox' = Deliver(inbox, srvOut')
    /\ UNCHANGED <<propVars, peerVars, hostCheck, isHost, isAllowedToDraw, allowedUserIds,
                   cliRoomUsers, permHist, canvasVars>>

\* the Board unmounts: return () => { socket.disconnect(); }; its React state
\* is discarded with it
Leave(c) ==
    /\ Disconnect(c)
    /\ inbox' = [Deliver(inbox, srvOut') EXCEPT ![c] = << >>]
    /\ mySocketId' = [mySocketId EXCEPT ![c] = ""]
    /\ hostCheck' = [hostCheck EXCEPT ![c] = "pending"]
    /\ isHost' = [isHost EXCEPT ![c] = FALSE]
    /\ isAllowedToDraw' = [isAllowedToDraw EXCEPT ![c] = FALSE]
    /\ allowedUserIds' = [allowedUserIds EXCEPT ![c] = {}]
    /\ cliRoomUsers' = [cliRoomUsers EXCEPT ![c] = {}]
    /\ remoteCursors' = [remoteCursors EXCEPT ![c] = << >>]
    /\ chatMessages' = [chatMessages EXCEPT ![c] = << >>]
    /\ typingUsers' = [typingUsers EXCEPT ![c] = << >>]
    /\ typingTimers' = [typingTimers EXCEPT ![c] = {}]
    /\ lastTyping' = [lastTyping EXCEPT ![c] = [n \in Names |-> {}]]
    /\ boardLoad' = [boardLoad EXCEPT ![c] = "pending"]
    /\ boardName' = [boardName EXCEPT ![c] = UntitledBoard]
    /\ UNCHANGED <<propVars, received, sent, clock, permHist, canvasVars>>
    /\ UNCHANGED <<store, loaded, lastSave>>

\* socket.on('roomUsers', ({ users }) => setRoomUsers(users))
OnRoomUsers(cur, m) == m.users

\* socket.on('drawPermission', ({ granted }) => setIsAllowedToDraw(granted))
OnDrawPermission(cur, m) == m.granted

OnDrawUpdateReplace(prev, m) == << m.data >>

\* socket.on('drawUpdate', d => setObjects(prev => [...prev, d])), and the
\* same for objectAdded
OnDrawUpdate(prev, m) == Append(prev, m.data)

\* socket.on('cursorUpdate', c => setRemoteCursors(prev => ({...prev, [c.userId]: c})))
OnCursorUpdate(prev, m) ==
    [u \in (DOMAIN prev) \cup {m.data.userId} |->
        IF u = m.data.userId THEN m.data ELSE prev[u]]

\* socket.on('cursorRemove', ({ userId }) => setRemoteCursors(prev => { delete n[userId] }))
OnCursorRemove(prev, m) == [u \in (DOMAIN prev) \ {m.from} |-> prev[u]]

\* socket.on('chatMessage', m => setChatMessages(prev => [...prev, m]))
OnChatMessage(prev, m) == Append(prev, m.data)

OnStickyUpdatedAll(prev, m) ==
    [i \in DOMAIN prev |-> IF prev[i].type = "sticky"
                           THEN [prev[i] EXCEPT !.text = m.data.text]
                           ELSE prev[i]]

\* socket.on('stickyUpdated', ({ id, text }) => setObjects(prev => prev.map(
\*   o => o.id === id && o.type === 'sticky' ? { ...o, text } : o)))
OnStickyUpdated(prev, m) ==
    [i \in DOMAIN prev |-> IF prev[i].id = m.data.id /\ prev[i].type = "sticky"
                           THEN [prev[i] EXCEPT !.text = m.data.text]
                           ELSE prev[i]]

HostUntilListChanges(cur, m) == cur /\ m.ev # "roomUsers"

\* isHost after a socket event: no handler of the socket effect calls
\* setIsHost
HostAfterEvent(cur, m) == cur

\* the socket dispatches the next queued event to its handler
Receive(c) ==
    /\ inbox[c] # << >>
    /\ LET m == Head(inbox[c])
       IN  /\ cliRoomUsers' = IF m.ev = "roomUsers"
                              THEN [cliRoomUsers EXCEPT ![c] = OnRoomUsers(@, m)]
                              ELSE cliRoomUsers
           /\ isAllowedToDraw' = IF m.ev = "drawPermission"
                                 THEN [isAllowedToDraw EXCEPT ![c] = OnDrawPermission(@, m)]
                                 ELSE isAllowedToDraw
           /\ IF m.ev \in {"drawUpdate", "objectAdded"}
              THEN /\ pages' = [pages EXCEPT ![c] =
                                   SetObjects(@, SocketPageId(c),
                                              OnDrawUpdate(PageObjects(@, SocketPageId(c)), m))]
                   /\ hist' = Note(c, "recv")
                   /\ received' = [received EXCEPT ![c] = @ \cup {m.data}]
              ELSE IF m.ev = "stickyUpdated"
              THEN /\ pages' = [pages EXCEPT ![c] =
                                   SetObjects(@, SocketPageId(c),
                                              OnStickyUpdated(PageObjects(@, SocketPageId(c)), m))]
                   /\ hist' = Note(c, "recv")
                   /\ UNCHANGED received
              ELSE UNCHANGED <<pages, hist, received>>
           /\ remoteCursors' =
                IF m.ev = "cursorUpdate"
                THEN [remoteCursors EXCEPT ![c] = OnCursorUpdate(@, m)]
                ELSE IF m.ev = "cursorRemove"
                THEN [remoteCursors EXCEPT ![c] = OnCursorRemove(@, m)]
                ELSE remoteCursors
           /\ chatMessages' = IF m.ev = "chatMessage"
                              THEN [chatMessages EXCEPT ![c] = OnChatMessage(@, m)]
                              ELSE chatMessages
           /\ isHost' = [isHost EXCEPT ![c] = HostAfterEvent(@, m)]
    /\ inbox' = [inbox EXCEPT ![c] = Tail(@)]
    /\ UNCHANGED <<srvVars, propVars, sent, typingVars, boardLoad, storeVars, mySocketId, hostCheck,
                   allowedUserIds, permHist>>
    /\ UNCHANGED <<currentPageId, undoStack, redoStack, tool, isDrawing, shapeStart,
                   textPos, editingStickyId, imgLoad, now, ops, cliOut>>

OwnerIdOfOtherBoard(b) == boardOwner[CHOOSE o \in RoomIds : o # b]

\* GET /api/boards/:boardId answers { ownerId: b.owner_id, ... }
OwnerId(b) == boardOwner[b]

IsOwnerNever(ownerId, myId) == FALSE

\* ownerId && myId && ownerId === myId
IsOwner(ownerId, myId) == ownerId # "" /\ myId # "" /\ ownerId = myId

\* the host detection effect; ok is r.ok of the fetch:
\* if (ownerId && myId && ownerId === myId) setIsHost(true)
HostDetect(c, ok) ==
    /\ status[c] # "closed"
    /\ hostCheck[c] = "pending"
    /\ hostCheck' = [hostCheck EXCEPT ![c] = "done"]
    /\ isHost' = [isHost EXCEPT ![c] = @ \/ (ok /\ IsOwner(OwnerId(boardOf[c]), userOf[c]))]
    /\ UNCHANGED <<srvVars, propVars, peerVars, inbox, mySocketId, isAllowedToDraw,
                   allowedUserIds, cliRoomUsers, permHist, canvasVars>>

AllowButtonAlways(c, u) == u # mySocketId[c]

\* {isHost && u.id !== mySocketId && (<button onClick={()=>toggleAllowUser(...)}>)}
AllowButtonShown(c, u) == isHost[c] /\ u # mySocketId[c]

ToggleAllowedAddOnly(allowed, u) == allowed \cup {u}

\* isAllowed ? updated.delete(userId) : updated.add(userId)
ToggleAllowed(allowed, u) == IF u \in allowed THEN allowed \ {u} ELSE allowed \cup {u}

\* the permission history: a click where no button is rendered ("denied"), a
\* grant ("granted", with the permission state before it), and the revoke
\* that directly follows that grant on the same target ("revoked")
PermStep(c, u) ==
    IF ~AllowButtonShown(c, u)
    THEN [NoPerm EXCEPT !.phase = "denied", !.by = c, !.target = u]
    ELSE IF u \notin allowedUserIds[c]
    THEN [phase |-> "granted", by |-> c, target |-> u,
          allowedBefore |-> allowedUserIds[c], capBefore |-> isAllowedToDraw[u]]
    ELSE IF permHist.phase = "granted" /\ permHist.by = c /\ permHist.target = u
    THEN [permHist EXCEPT !.phase = "revoked"]
    ELSE NoPerm

\* a click on the place of the Allow button of list entry u; toggleAllowUser
\* runs when the button is rendered there
AllowClick(c, u) ==
    /\ status[c] = "connected"
    /\ u \in cliRoomUsers[c]
    /\ permHist' = PermStep(c, u)
    /\ IF AllowButtonShown(c, u)
       THEN /\ allowedUserIds' = [allowedUserIds EXCEPT ![c] = ToggleAllowed(@, u)]
            /\ Send(c, << Ev("setDrawPermission", NoObj) >>)
       ELSE /\ UNCHANGED allowedUserIds
            /\ Send(c, << >>)
    /\ UNCHANGED <<propVars, peerVars, mySocketId, hostCheck, isHost, isAllowedToDraw, cliRoomUsers,
                   canvasVars>>

\* who is signed in at each Board: c1 is the owner of r1, c3 is not, c2 is
\* either
Sessions == {[c \in Conns |-> IF c = "c1" THEN "u1" ELSE "u2"],
             [c \in Conns |-> IF c = "c3" THEN "u2" ELSE "u1"]}

InitPerm ==
    /\ InitServer
    /\ InitBoard
    /\ userOf \in Sessions
    /\ boardOf = [c \in Conns |-> "r1"]

NextPerm ==
    \/ \E c \in Conns : Connect(c) /\ UNCHANGED cliVars
    \/ \E c \in Conns : OnConnect(c)
    \/ \E c \in Conns : Leave(c)
    \/ \E c \in Conns : Receive(c)
    \/ \E c \in Conns, ok \in BOOLEAN : HostDetect(c, ok)
    \/ \E c \in Conns, u \in Conns : AllowClick(c, u)

SpecPerm == InitPerm /\ [][NextPerm]_vars

\* the fetch of the host detection effect answers with r.ok
LoadSucceeds(c) == HostDetect(c, TRUE)

\* joining a board whose load succeeds: the socket effect and the host
\* detection effect of each Board run independently
NextJoin ==
    \/ \E c \in Conns : Connect(c) /\ UNCHANGED cliVars
    \/ \E c \in Conns : OnConnect(c)
    \/ \E c \in Conns : Leave(c)
    \/ \E c \in Conns : Receive(c)
    \/ \E c \in Conns : LoadSucceeds(c)

\* the browser runs the .then callbacks of a fetch that was answered: the
\* answer of a mounted Board's load is handled after finitely many steps
SpecJoin ==
    /\ InitPerm
    /\ [][NextJoin]_vars
    /\ \A c \in Conns : WF_vars(LoadSucceeds(c))

\* at most MaxInbox events are in flight to a Board when a pointer moves
MaxInbox == 2

\* the position of the pointer on the stage (getPos)
Positions == { [x |-> 1, y |-> 2] }

\* handleMouseMove: emit('cursorMove', { x, y, name, color, isDrawing });
\* the live points and the shape preview are not modelled
HandleMouseMove(c, pos) ==
    /\ Mounted(c)
    /\ \A d \in Conns : Len(inbox[d]) < MaxInbox
    /\ CursorMove(c, [x |-> pos.x, y |-> pos.y, isDrawing |-> isDrawing[c]])
    /\ inbox' = Deliver(inbox, srvOut')
    /\ UNCHANGED <<propVars, peerVars, roleVars, canvasVars>>

(***************************************************************************)
(* Board component: canvas, undo / redo (Auth.tsx)                         *)
(***************************************************************************)
\* the Boards make at most MaxOps object additions, clears and sticky edits
MaxOps == 2

\* one tool of each branch of the mouse handlers: pen stands for pen / eraser /
\* highlight, rectangle for the six shape tools
PenTools == {"pen"}

ShapeTools == {"rectangle"}

Tools == PenTools \cup ShapeTools \cup {"text", "sticky"}

\* the values of textInput; "" is blank
Texts == {"", "a"}

\* the values of stickyEditText
Edits == {"a"}

RedoKeptOnSave(r) == r

\* saveToUndo: setRedoStack([])
RedoOnSave(r) == << >>

\* the values Date.now() returns: milliseconds of the clock of the machine a
\* Board runs on; the clocks of two machines are independent
MaxTime == 2

Times == 1..MaxTime

\* saveToUndo(snapshot); setObjects(prev => [...prev, obj]), setObjects being
\* the one of the render whose current page is pid; obj was made at
\* millisecond t of c's clock, later than the Board's previous object
Add(c, t, kind, snapshot, pid, obj) ==
    /\ ops < MaxOps
    /\ ops' = ops + 1
    /\ t > now[c]
    /\ now' = [now EXCEPT ![c] = t]
    /\ undoStack' = [undoStack EXCEPT ![c] = Append(@, snapshot)]
    /\ redoStack' = [redoStack EXCEPT ![c] = RedoOnSave(@)]
    /\ pages' = [pages EXCEPT ![c] = SetObjects(@, pid, Append(PageObjects(@, pid), obj))]
    /\ hist' = Note(c, kind)

NoAdd == UNCHANGED <<ops, now, undoStack, redoStack, pages, hist>>

\* the toolbar button of tool t, or its key, pressed while no mouse gesture
\* is in progress and no text overlay is open
SetTool(c, t) ==
    /\ Mounted(c)
    /\ CanDraw(c)
    /\ ~isDrawing[c] /\ ~shapeStart[c] /\ ~textPos[c]
    /\ tool' = [tool EXCEPT ![c] = t]
    /\ UNCHANGED <<srvVars, propVars, peerVars, inbox, roleVars>>
    /\ UNCHANGED <<pages, currentPageId, undoStack, redoStack, isDrawing, shapeStart,
                   textPos, editingStickyId, imgLoad, now, ops, cliOut, hist>>

\* handleMouseDown
HandleMouseDown(c, t) ==
    LET go == CanDraw(c)
        note == MkObj(t, "sticky", "sticky", "Double-click to edit")
        evs == IF ~go THEN << >>
               ELSE IF tool[c] \in PenTools THEN << Ev("presenceUpdate", NoObj) >>
               ELSE IF tool[c] = "sticky" THEN << Ev("addObject", note) >>
               ELSE << >>
    IN  /\ Mounted(c)
        /\ isDrawing' = IF go /\ tool[c] \in PenTools
                        THEN [isDrawing EXCEPT ![c] = TRUE] ELSE isDrawing
        /\ shapeStart' = IF go /\ tool[c] \in ShapeTools
                         THEN [shapeStart EXCEPT ![c] = TRUE] ELSE shapeStart
        /\ textPos' = IF go /\ tool[c] = "text"
                      THEN [textPos EXCEPT ![c] = TRUE] ELSE textPos
        /\ IF go /\ tool[c] = "sticky"
           THEN Add(c, t, "sticky", Objects(c), currentPageId[c], note)
           ELSE NoAdd
        /\ cliOut' = Out(c, evs)
        /\ Send(c, evs)
        /\ UNCHANGED <<propVars, peerVars, roleVars, currentPageId, tool, editingStickyId,
                       imgLoad>>

\* handleMouseUp
HandleMouseUp(c, t) ==
    LET stroke == tool[c] \in PenTools /\ isDrawing[c]
        shape == shapeStart[c] /\ tool[c] \in ShapeTools
        line == MkObj(t, "line", "line", "")
        rect == MkObj(t, "rect", "rectangle", "")
        evs == << Ev("presenceUpdate", NoObj) >>
               \o (IF stroke THEN << Ev("draw", line) >>
                   ELSE IF shape THEN << Ev("addObject", rect) >>
                   ELSE << >>)
    IN  /\ Mounted(c)
        /\ isDrawing' = IF stroke THEN [isDrawing EXCEPT ![c] = FALSE] ELSE isDrawing
        /\ shapeStart' = [shapeStart EXCEPT ![c] = FALSE]
        /\ IF stroke THEN Add(c, t, "stroke", Objects(c), currentPageId[c], line)
           ELSE IF shape THEN Add(c, t, "shape", Objects(c), currentPageId[c], rect)
           ELSE NoAdd
        /\ cliOut' = Out(c, evs)
        /\ Send(c, evs)
        /\ UNCHANGED <<propVars, peerVars, roleVars, currentPageId, tool, textPos,
                       editingStickyId, imgLoad>>

\* handleTextSubmit with textInput = txt
HandleTextSubmit(c, t, txt) ==
    LET go == txt # "" /\ textPos[c]
        obj == MkObj(t, "txt", "text", txt)
        evs == IF go THEN << Ev("addObject", obj) >> ELSE << >>
    IN  /\ Mounted(c)
        /\ IF go THEN Add(c, t, "text", Objects(c), currentPageId[c], obj) ELSE NoAdd
        /\ textPos' = IF go THEN [textPos EXCEPT ![c] = FALSE] ELSE textPos
        /\ cliOut' = Out(c, evs)
        /\ Send(c, evs)
        /\ UNCHANGED <<propVars, peerVars, roleVars, currentPageId, tool, isDrawing, shapeStart,
                       editingStickyId, imgLoad>>

\* Escape in the text overlay: setTextPos(null); setTextInput('')
CancelText(c) ==
    /\ Mounted(c)
    /\ textPos[c]
    /\ textPos' = [textPos EXCEPT ![c] = FALSE]
    /\ UNCHANGED <<srvVars, propVars, peerVars, inbox, roleVars>>
    /\ UNCHANGED <<pages, currentPageId, undoStack, redoStack, tool, isDrawing,
                   shapeStart, editingStickyId, imgLoad, now, ops, cliOut, hist>>

\* handleDblClick on the node of the i-th object of the current page
HandleDblClick(c, i) ==
    LET id == Objects(c)[i].id
        obj == Head(SelectSeq(Objects(c), LAMBDA o : o.id = id))
    IN  /\ Mounted(c)
        /\ i \in 1..Len(Objects(c))
        /\ editingStickyId' = IF obj.type = "sticky"
                              THEN [editingStickyId EXCEPT ![c] = id]
                              ELSE editingStickyId
        /\ UNCHANGED <<srvVars, propVars, peerVars, inbox, roleVars>>
        /\ UNCHANGED <<pages, currentPageId, undoStack, redoStack, tool, isDrawing,
                       shapeStart, textPos, imgLoad, now, ops, hist>>
        /\ cliOut' = Out(c, << >>)

\* prev.map(o => o.id===editingStickyId && o.type==='sticky' ? {...o,text} : o)
EditSticky(prev, id, txt) ==
    [i \in DOMAIN prev |-> IF prev[i].id = id /\ prev[i].type = "sticky"
                           THEN [prev[i] EXCEPT !.text = txt]
                           ELSE prev[i]]

\* saveStickyEdit with stickyEditText = txt (the textarea loses the focus)
SaveStickyEdit(c, txt) ==
    LET id == editingStickyId[c]
        evs == << Ev("stickyUpdate", [id |-> id, type |-> "sticky", text |-> txt]) >>
    IN  /\ Mounted(c)
        /\ id # NoId
        /\ ops < MaxOps
        /\ ops' = ops + 1
        /\ pages' = [pages EXCEPT ![c] =
                        SetObjects(@, currentPageId[c],
                                   EditSticky(PageObjects(@, currentPageId[c]), id, txt))]
        /\ editingStickyId' = [editingStickyId EXCEPT ![c] = NoId]
        /\ hist' = Note(c, "edit")
        /\ cliOut' = Out(c, evs)
        /\ Send(c, evs)
        /\ UNCHANGED <<propVars, peerVars, roleVars, currentPageId, undoStack, redoStack, tool,
                       isDrawing, shapeStart, textPos, imgLoad, now>>

\* the Clear button, rendered when canDraw: saveToUndo(objects); setObjects([])
Clear(c) ==
    /\ Mounted(c)
    /\ CanDraw(c)
    /\ ops < MaxOps
    /\ ops' = ops + 1
    /\ undoStack' = [undoStack EXCEPT ![c] = Append(@, Objects(c))]
    /\ redoStack' = [redoStack EXCEPT ![c] = RedoOnSave(@)]
    /\ pages' = [pages EXCEPT ![c] = SetObjects(@, currentPageId[c], << >>)]
    /\ hist' = Note(c, "clear")
    /\ cliOut' = Out(c, << >>)
    /\ UNCHANGED <<srvVars, propVars, peerVars, inbox, roleVars>>
    /\ UNCHANGED <<currentPageId, tool, isDrawing, shapeStart, textPos, editingStickyId,
                   imgLoad, now>>

\* handleImageUpload: the image tool button opens the file dialog; reader.onload
\* and img.onload keep the objects and setObjects of the render of the change
\* event
ImageSelect(c) ==
    /\ Mounted(c)
    /\ CanDraw(c)
    /\ ~imgLoad[c].pending
    /\ imgLoad' = [imgLoad EXCEPT ![c] = [pending |-> TRUE, objects |-> Objects(c),
                                          page |-> currentPageId[c]]]
    /\ UNCHANGED <<srvVars, propVars, peerVars, inbox, roleVars>>
    /\ UNCHANGED <<pages, currentPageId, undoStack, redoStack, tool, isDrawing,
                   shapeStart, textPos, editingStickyId, now, ops, cliOut, hist>>

\* img.onload: saveToUndo(objects); setObjects(prev => [...prev, obj])
ImageLoaded(c, t) ==
    /\ Mounted(c)
    /\ imgLoad[c].pending
    /\ Add(c, t, "image", imgLoad[c].objects, imgLoad[c].page, MkObj(t, "img", "image", ""))
    /\ imgLoad' = [imgLoad EXCEPT ![c] = NoLoad]
    /\ cliOut' = Out(c, << >>)
    /\ UNCHANGED <<srvVars, propVars, peerVars, inbox, roleVars>>
    /\ UNCHANGED <<currentPageId, tool, isDrawing, shapeStart, textPos,
                   editingStickyId>>

Pop(s) == SubSeq(s, 1, Len(s) - 1)

TopFirst(s) == s[1]

\* const last = s.pop()!
Top(s) == s[Len(s)]

UndoEmitsDraw == << Ev("draw", NoObj) >>

\* the events handleUndo and handleRedo emit: their bodies hold no
\* socketRef.current?.emit
UndoEmits == << >>

OtherStackPushedAnyway(other, objs) == Append(other, objs)

\* if (prev.length === 0) return prev: the updater returns before
\* setRedoStack(r => [...r, objects]) (handleUndo) or
\* setUndoStack(u => [...u, objects]) (handleRedo) is called
OtherStackOnEmpty(other, objs) == other

\* handleUndo (button or Ctrl+Z)
HandleUndo(c) ==
    /\ Mounted(c)
    /\ IF undoStack[c] = << >>
       THEN /\ redoStack' = [redoStack EXCEPT ![c] = OtherStackOnEmpty(@, Objects(c))]
            /\ hist' = Note(c, "undo0")
            /\ UNCHANGED <<undoStack, pages>>
       ELSE /\ undoStack' = [undoStack EXCEPT ![c] = Pop(@)]
            /\ redoStack' = [redoStack EXCEPT ![c] = Append(@, Objects(c))]
            /\ pages' = [pages EXCEPT ![c] =
                            SetObjects(@, currentPageId[c], Top(undoStack[c]))]
            /\ hist' = Note(c, "undo")
    /\ cliOut' = Out(c, UndoEmits)
    /\ Send(c, UndoEmits)
    /\ UNCHANGED <<propVars, peerVars, roleVars>>
    /\ UNCHANGED <<currentPageId, tool, isDrawing, shapeStart, textPos, editingStickyId,
                   imgLoad, now, ops>>

\* handleRedo (button or Ctrl+Y)
HandleRedo(c) ==
    /\ Mounted(c)
    /\ IF redoStack[c] = << >>
       THEN /\ undoStack' = [undoStack EXCEPT ![c] = OtherStackOnEmpty(@, Objects(c))]
            /\ hist' = Note(c, "redo0")
            /\ UNCHANGED <<redoStack, pages>>
       ELSE /\ redoStack' = [redoStack EXCEPT ![c] = Pop(@)]
            /\ undoStack' = [undoStack EXCEPT ![c] = Append(@, Objects(c))]
            /\ pages' = [pages EXCEPT ![c] =
                            SetObjects(@, currentPageId[c], Top(redoStack[c]))]
            /\ hist' = Note(c, "redo")
    /\ cliOut' = Out(c, UndoEmits)
    /\ Send(c, UndoEmits)
    /\ UNCHANGED <<propVars, peerVars, roleVars>>
    /\ UNCHANGED <<currentPageId, tool, isDrawing, shapeStart, textPos, editingStickyId,
                   imgLoad, now, ops>>

\* a session in progress: the owner's Board c1 and the Board c2 of another
\* user have connected to board r1, have handled the events of their joining
\* and have had the answer to their host detection
InitCanvas ==
    /\ status = [c \in Conns |-> IF c = "c3" THEN "idle" ELSE "connected"]
    /\ currentRoom = [c \in Conns |-> IF c = "c3" THEN NoRoom ELSE "r1"]
    /\ sockRooms = [c \in Conns |-> IF c = "c3" THEN {} ELSE {"r1"}]
    /\ roomUsers = [b \in {"r1"} |-> {"c1", "c2"}]
    /\ srvOut = << Msg("userJoined", "r1", "c2", {"c1"}),
                   [Msg("roomUsers", "r1", "c2", {"c1", "c2"})
                       EXCEPT !.users = {"c1", "c2"}] >>
    /\ lastRoomUsers = [b \in {"r1"} |-> {"c1", "c2"}]
    /\ srvIn = In("c2", "joinRoom", "r1", NoObj)
    /\ inbox = [c \in Conns |-> << >>]
    /\ mySocketId = [c \in Conns |-> IF c = "c3" THEN "" ELSE c]
    /\ hostCheck = [c \in Conns |-> IF c = "c3" THEN "pending" ELSE "done"]
    /\ isHost = [c \in Conns |-> c = "c1"]
    /\ isAllowedToDraw = [c \in Conns |-> FALSE]
    /\ allowedUserIds = [c \in Conns |-> {}]
    /\ cliRoomUsers = [c \in Conns |-> IF c = "c3" THEN {} ELSE {"c1", "c2"}]
    /\ permHist = NoPerm
    /\ InitPages
    /\ userOf = [c \in Conns |-> IF c = "c1" THEN "u1" ELSE "u2"]
    /\ boardOf = [c \in Conns |-> "r1"]

NextCanvas ==
    \/ \E c \in Conns : Receive(c)
    \/ \E c \in Conns, t \in Tools : SetTool(c, t)
    \/ \E c \in Conns, t \in Times : HandleMouseDown(c, t)
    \/ \E c \in Conns, t \in Times : HandleMouseUp(c, t)
    \/ \E c \in Conns, t \in Times, txt \in Texts : HandleTextSubmit(c, t, txt)
    \/ \E c \in Conns, i \in 1..MaxOps : HandleDblClick(c, i)
    \/ \E c \in Conns, txt \in Edits : SaveStickyEdit(c, txt)
    \/ \E c \in Conns : CancelText(c)
    \/ \E c \in Conns : Clear(c)
    \/ \E c \in Conns : ImageSelect(c)
    \/ \E c \in Conns, t \in Times : ImageLoaded(c, t)
    \/ \E c \in Conns : HandleUndo(c)
    \/ \E c \in Conns : HandleRedo(c)

SpecCanvas == InitCanvas /\ [][NextCanvas]_vars

\* a session: the Host and a Viewer are on the board, a third participant
\* may join; pointers move, the Host grants and revokes, Boards unmount
NextSession ==
    \/ \E c \in Conns : Connect(c) /\ UNCHANGED cliVars
    \/ \E c \in Conns : OnConnect(c)
    \/ \E c \in Conns : Receive(c)
    \/ \E c \in Conns, u \in Conns : AllowClick(c, u)
    \/ \E c \in Conns, pos \in Positions : HandleMouseMove(c, pos)
    \/ \E c \in Conns : Leave(c)

SpecSession == InitCanvas /\ [][NextSession]_vars

\* the participants send at most MaxChat chat messages
MaxChat == 2

\* chatInput when Enter is pressed or the send button is clicked
ChatInputs == {"", "hi", "yo"}

\* sendChat with chatInput = txt: the message carries the socket id and the
\* text; name, time and color are display attributes and are left out
SendChat(c, txt) ==
    LET msg == [userId |-> c, text |-> txt]
        payload == [boardId |-> boardOf[c], userId |-> c, text |-> txt]
        go == txt # ""
    IN  /\ Mounted(c)
        /\ Len(sent["c1"]) + Len(sent["c2"]) + Len(sent["c3"]) < MaxChat
        /\ IF go
           THEN /\ Send(c, << Ev("chatMessage", payload) >>)
                /\ chatMessages' = [chatMessages EXCEPT ![c] = Append(@, msg)]
                /\ sent' = [sent EXCEPT ![c] = Append(@, msg)]
           ELSE /\ Send(c, << >>)
                /\ UNCHANGED <<chatMessages, sent>>
        /\ UNCHANGED <<propVars, received, remoteCursors, typingVars, boardLoad, storeVars, roleVars,
                       canvasVars>>

\* a chat session: the Host and a Viewer are on the board, a third
\* participant may join, Boards unmount
NextChat ==
    \/ \E c \in Conns : Connect(c) /\ UNCHANGED cliVars
    \/ \E c \in Conns : OnConnect(c)
    \/ \E c \in Conns : Receive(c)
    \/ \E c \in Conns, txt \in ChatInputs : SendChat(c, txt)
    \/ \E c \in Conns : Leave(c)

SpecChat == InitCanvas /\ [][NextChat]_vars

\* a session of two drawing participants: the owner of board r1 has the
\* board open in two Boards c1 and c2 (two devices); both have joined, have
\* handled the events of their joining and have been detected as Host
\* a Board holds at most MaxPages pages
MaxPages == 2

\* `page-${Date.now()}`, Date.now() returning t; the times of the model are
\* marked with a t, as no Date.now() yields the default id 'page-1'
PageId(t) == "page-t" \o ToString(t)

\* addPage: setPages(prev => [...prev, p]); setCurrentPageId(p.id); the
\* click comes at a millisecond t at which no page of the Board was made
AddPage(c, t) ==
    /\ Mounted(c)
    /\ Len(pages[c]) < MaxPages
    /\ \A i \in 1..Len(pages[c]) : pages[c][i].id # PageId(t)
    /\ pages' = [pages EXCEPT ![c] = Append(@, [id |-> PageId(t), objects |-> << >>])]
    /\ currentPageId' = [currentPageId EXCEPT ![c] = PageId(t)]
    /\ hist' = Note(c, "page")
    /\ UNCHANGED <<srvVars, propVars, peerVars, inbox, roleVars>>
    /\ UNCHANGED <<undoStack, redoStack, tool, isDrawing, shapeStart, textPos,
                   editingStickyId, imgLoad, now, ops, cliOut>>

\* a click on the tab of the i-th page: setCurrentPageId(page.id)
SwitchPage(c, i) ==
    /\ Mounted(c)
    /\ i \in 1..Len(pages[c])
    /\ pages[c][i].id # currentPageId[c]
    /\ currentPageId' = [currentPageId EXCEPT ![c] = pages[c][i].id]
    /\ hist' = Note(c, "page")
    /\ UNCHANGED <<srvVars, propVars, peerVars, inbox, roleVars>>
    /\ UNCHANGED <<pages, undoStack, redoStack, tool, isDrawing, shapeStart, textPos,
                   editingStickyId, imgLoad, now, ops, cliOut>>

\* deletePage of the i-th page; its button is rendered when pages.length > 1:
\* const rest = pages.filter(p => p.id !== id); setPages(rest);
\* if (currentPageId === id) setCurrentPageId(rest[0].id)
DeletePage(c, i) ==
    LET id == pages[c][i].id
        rest == SelectSeq(pages[c], LAMBDA p : p.id # id)
    IN  /\ Mounted(c)
        /\ i \in 1..Len(pages[c])
        /\ Len(pages[c]) > 1
        /\ pages' = [pages EXCEPT ![c] = rest]
        /\ currentPageId' = IF currentPageId[c] = id
                            THEN [currentPageId EXCEPT ![c] = rest[1].id]
                            ELSE currentPageId
        /\ hist' = Note(c, "page")
        /\ UNCHANGED <<srvVars, propVars, peerVars, inbox, roleVars>>
        /\ UNCHANGED <<undoStack, redoStack, tool, isDrawing, shapeStart, textPos,
                       editingStickyId, imgLoad, now, ops, cliOut>>

\* the tools of the gestures that end in a second handler
GestureTools == {"pen", "text"}

\* a drawPermission event { granted } reaches the socket of Board c, which
\* is not a Host's and has handled the events before it
DrawPermissionArrives(c, granted) ==
    /\ Mounted(c)
    /\ ~isHost[c]
    /\ inbox[c] = << >>
    /\ inbox' = [inbox EXCEPT ![c] =
                     Append(@, [Msg("drawPermission", boardOf[c], "none", {c})
                                   EXCEPT !.granted = granted])]
    /\ UNCHANGED <<srvVars, propVars, peerVars, roleVars, canvasVars>>

\* drawing while the capability changes: drawPermission events arrive
\* between the handlers of a gesture
NextRevoke ==
    \/ \E c \in Conns : Receive(c)
    \/ \E c \in Conns, granted \in BOOLEAN : DrawPermissionArrives(c, granted)
    \/ \E c \in Conns, t \in GestureTools : SetTool(c, t)
    \/ \E c \in Conns, t \in Times : HandleMouseDown(c, t)
    \/ \E c \in Conns, t \in Times : HandleMouseUp(c, t)
    \/ \E c \in Conns, t \in Times, txt \in Texts : HandleTextSubmit(c, t, txt)

SpecRevoke == InitCanvas /\ [][NextRevoke]_vars

\* the milliseconds at which pages are added
PageTimes == {1}

\* the pages GET /api/boards/:boardId answers with: the default page-1 row
\* of a board never saved with pages, or the one page of a board stored with
\* pages (in a boards table that has the pages column) after its owner
\* replaced page-1
StoredBoards == { << [id |-> "page-1", objects |-> << >>] >>,
                  << [id |-> PageId(1), objects |-> << >>] >> }

\* the .then of the initial fetch of the socket effect, ok being r.ok:
\* if (data?.pages?.length > 0) { setPages(data.pages);
\*                                setCurrentPageId(data.pages[0].id) }
LoadResolves(c, ok, data) ==
    /\ status[c] # "closed"
    /\ boardLoad[c] = "pending"
    /\ boardLoad' = [boardLoad EXCEPT ![c] = "done"]
    /\ pages' = IF ok THEN [pages EXCEPT ![c] = data] ELSE pages
    /\ currentPageId' = IF ok THEN [currentPageId EXCEPT ![c] = data[1].id]
                        ELSE currentPageId
    /\ hist' = Note(c, "load")
    /\ UNCHANGED <<srvVars, propVars, received, remoteCursors, chatMessages, sent,
                   typingVars, storeVars, inbox, roleVars>>
    /\ UNCHANGED <<undoStack, redoStack, tool, isDrawing, shapeStart, textPos,
                   editingStickyId, imgLoad, now, ops, cliOut>>

\* joining a board in use: the Host draws strokes, the Boards receive them,
\* their initial loads resolve, and their pages are added, switched and
\* deleted
NextLoad ==
    \/ \E c \in Conns : Receive(c)
    \/ \E c \in Conns, t \in Times : HandleMouseDown(c, t)
    \/ \E c \in Conns, t \in Times : HandleMouseUp(c, t)
    \/ \E c \in Conns, ok \in BOOLEAN, data \in StoredBoards : LoadResolves(c, ok, data)
    \/ \E c \in Conns, t \in PageTimes : AddPage(c, t)
    \/ \E c \in Conns, i \in 1..MaxPages : SwitchPage(c, i)
    \/ \E c \in Conns, i \in 1..MaxPages : DeletePage(c, i)

SpecLoad == InitCanvas /\ [][NextLoad]_vars

\* a Board with several pages: strokes are drawn and received, pages are
\* added and switched, steps are undone and redone
NextPages ==
    \/ \E c \in Conns : Receive(c)
    \/ \E c \in Conns, t \in Times : HandleMouseDown(c, t)
    \/ \E c \in Conns, t \in Times : HandleMouseUp(c, t)
    \/ \E c \in Conns, t \in PageTimes : AddPage(c, t)
    \/ \E c \in Conns, i \in 1..MaxPages : SwitchPage(c, i)
    \/ \E c \in Conns : HandleUndo(c)
    \/ \E c \in Conns : HandleRedo(c)

SpecPages == InitCanvas /\ [][NextPages]_vars

\* the tool of a sticky session
StickyTools == {"sticky"}

\* the ids a stickyUpdated event names: the ids a sticky note can have, and
\* one that no object has
StickyIds == {<<"sticky", t>> : t \in Times} \cup {<<"sticky", 0>>}

\* a stickyUpdated event { id, text } reaches the socket of Board c, which
\* has handled the events before it
StickyUpdatedArrives(c, id, txt) ==
    /\ Mounted(c)
    /\ inbox[c] = << >>
    /\ inbox' = [inbox EXCEPT ![c] =
                     Append(@, [Msg("stickyUpdated", boardOf[c], "none", {c})
                                   EXCEPT !.data = [id |-> id, type |-> "sticky",
                                                    text |-> txt]])]
    /\ UNCHANGED <<srvVars, propVars, peerVars, roleVars, canvasVars>>

\* sticky notes are placed and edited, locally and by stickyUpdated events,
\* and steps are undone
NextSticky ==
    \/ \E c \in Conns : Receive(c)
    \/ \E c \in Conns, t \in StickyTools : SetTool(c, t)
    \/ \E c \in Conns, t \in Times : HandleMouseDown(c, t)
    \/ \E c \in Conns, i \in 1..MaxOps : HandleDblClick(c, i)
    \/ \E c \in Conns, txt \in Edits : SaveStickyEdit(c, txt)
    \/ \E c \in Conns : HandleUndo(c)
    \/ \E c \in Conns, id \in StickyIds, txt \in Edits : StickyUpdatedArrives(c, id, txt)

SpecSticky == InitCanvas /\ [][NextSticky]_vars

\* setTimeout(..., 2000): the lifetime of a typing timer, in seconds
TypingWindow == 2

\* the clock of a typing session stops at MaxClock
MaxClock == 4

\* prev.includes(name)
Includes(prev, name) == \E i \in 1..Len(prev) : prev[i] = name

\* socket.on('typing', ({ name }) => ...) at Board c: the name is appended
\* unless it is there, and a new timer is started; no timer is cleared. Two
\* timers of one name started in the same second act as one
OnTyping(c, name) ==
    /\ Mounted(c)
    /\ typingUsers' = [typingUsers EXCEPT ![c] =
                           IF Includes(@, name) THEN @ ELSE Append(@, name)]
    /\ typingTimers' = [typingTimers EXCEPT ![c] =
                            @ \cup {[name |-> name, due |-> clock + TypingWindow]}]
    /\ lastTyping' = [lastTyping EXCEPT ![c][name] = {clock}]
    /\ UNCHANGED <<srvVars, propVars, received, remoteCursors, chatMessages, sent, clock,
                   boardLoad, storeVars,
                   inbox, roleVars, canvasVars>>

\* the callback of a timer that is due:
\* setTypingUsers(prev => prev.filter(n => n !== name))
TimerFires(c, tm) ==
    /\ tm \in typingTimers[c]
    /\ tm.due <= clock
    /\ typingUsers' = [typingUsers EXCEPT ![c] = SelectSeq(@, LAMBDA n : n # tm.name)]
    /\ typingTimers' = [typingTimers EXCEPT ![c] = @ \ {tm}]
    /\ UNCHANGED <<srvVars, propVars, received, remoteCursors, chatMessages, sent, clock,
                   boardLoad, storeVars,
                   lastTyping, inbox, roleVars, canvasVars>>

\* a second passes; the timers that are due have run
Tick ==
    /\ clock < MaxClock
    /\ \A c \in Conns : \A tm \in typingTimers[c] : tm.due > clock
    /\ clock' = clock + 1
    /\ UNCHANGED <<srvVars, propVars, received, remoteCursors, chatMessages, sent,
                   boardLoad, storeVars, typingUsers, typingTimers, lastTyping, inbox, roleVars,
                   canvasVars>>

\* the typing indicator of the Boards on a board: typing events arrive from
\* the socket, their timers run, time passes
NextTyping ==
    \/ \E c \in Conns, name \in Names : OnTyping(c, name)
    \/ \E c \in Conns : \E tm \in typingTimers[c] : TimerFires(c, tm)
    \/ Tick

SpecTyping == InitCanvas /\ [][NextTyping]_vars

InitPeers ==
    /\ status = [c \in Conns |-> IF c = "c3" THEN "idle" ELSE "connected"]
    /\ currentRoom = [c \in Conns |-> IF c = "c3" THEN NoRoom ELSE "r1"]
    /\ sockRooms = [c \in Conns |-> IF c = "c3" THEN {} ELSE {"r1"}]
    /\ roomUsers = [b \in {"r1"} |-> {"c1", "c2"}]
    /\ srvOut = << Msg("userJoined", "r1", "c2", {"c1"}),
                   [Msg("roomUsers", "r1", "c2", {"c1", "c2"})
                       EXCEPT !.users = {"c1", "c2"}] >>
    /\ lastRoomUsers = [b \in {"r1"} |-> {"c1", "c2"}]
    /\ srvIn = In("c2", "joinRoom", "r1", NoObj)
    /\ inbox = [c \in Conns |-> << >>]
    /\ mySocketId = [c \in Conns |-> IF c = "c3" THEN "" ELSE c]
    /\ hostCheck = [c \in Conns |-> IF c = "c3" THEN "pending" ELSE "done"]
    /\ isHost = [c \in Conns |-> c \in {"c1", "c2"}]
    /\ isAllowedToDraw = [c \in Conns |-> FALSE]
    /\ allowedUserIds = [c \in Conns |-> {}]
    /\ cliRoomUsers = [c \in Conns |-> IF c = "c3" THEN {} ELSE {"c1", "c2"}]
    /\ permHist = NoPerm
    /\ InitPages
    /\ userOf = [c \in Conns |-> IF c = "c3" THEN "u2" ELSE "u1"]
    /\ boardOf = [c \in Conns |-> "r1"]

\* the two participants draw strokes with the pen, receive each other's
\* strokes, and undo and redo
NextPeers ==
    \/ \E c \in Conns : Receive(c)
    \/ \E c \in Conns, t \in Times : HandleMouseDown(c, t)
    \/ \E c \in Conns, t \in Times : HandleMouseUp(c, t)
    \/ \E c \in Conns : HandleUndo(c)
    \/ \E c \in Conns : HandleRedo(c)

SpecPeers == InitPeers /\ [][NextPeers]_vars

\* the saves of a session
MaxSaves == 1

\* the names typed into the board name input
BoardNames == {"", "Plan"}

\* boardName || 'Untitled Board'
OrUntitled(name) == IF name = "" THEN UntitledBoard ELSE name

\* pages.flatMap(p => p.objects || [])
RECURSIVE FlatMapObjects(_)
FlatMapObjects(pgs) ==
    IF pgs = << >> THEN << >>
    ELSE Head(pgs).objects \o FlatMapObjects(Tail(pgs))

\* POST /api/boards/:boardId by user with body { objects, pages, boardName },
\* at being NOW(): UPDATE boards SET objects, pages, board_name, updated_at
\* WHERE id = boardId AND owner_id = user; the query throws when the table
\* lacks a column it sets, and the catch runs
\* UPDATE boards SET objects = allObjects, updated_at WHERE id AND owner_id
SaveBoard(row, user, body, at) ==
    IF row.owner_id # user THEN row
    ELSE IF {"pages", "board_name"} \subseteq Columns
    THEN [row EXCEPT !.objects = body.objects, !.pages = body.pages,
                     !.board_name = OrUntitled(body.boardName), !.updated_at = at]
    ELSE [row EXCEPT !.objects = FlatMapObjects(body.pages), !.updated_at = at]

\* GET /api/boards/:boardId: the answer built from the row
GetBoard(b, row) ==
    [boardId |-> b, ownerId |-> row.owner_id, objects |-> row.objects,
     pages |-> IF Len(row.pages) > 0 THEN row.pages
               ELSE << [id |-> "page-1", objects |-> row.objects] >>,
     boardName |-> OrUntitled(row.board_name), updatedAt |-> row.updated_at]

\* the board name input: onChange={e => setBoardName(e.target.value)},
\* onBlur={handleNameSave}, which emits boardNameChange
SetBoardName(c, name) ==
    /\ Mounted(c)
    /\ boardName[c] # name
    /\ boardName' = [boardName EXCEPT ![c] = name]
    /\ Send(c, << Ev("boardNameChange", NoObj) >>)
    /\ UNCHANGED <<propVars, received, remoteCursors, chatMessages, sent, typingVars,
                   boardLoad, store, loaded, lastSave, roleVars, canvasVars>>

\* handleSave: fetch(POST /api/boards/:boardId, { objects, pages, boardName }),
\* and the route's handling of it
HandleSave(c) ==
    /\ Mounted(c)
    /\ lastSave.n < MaxSaves
    /\ LET body == [objects |-> Objects(c), pages |-> pages[c], boardName |-> boardName[c]]
           at == lastSave.n + 1
       IN  /\ store' = [store EXCEPT ![boardOf[c]] = SaveBoard(@, userOf[c], body, at)]
           /\ lastSave' = [n |-> at, user |-> userOf[c], board |-> boardOf[c],
                           pages |-> body.pages, boardName |-> body.boardName]
    /\ UNCHANGED <<srvVars, propVars, received, remoteCursors, chatMessages, sent,
                   typingVars, boardLoad, boardName, loaded, inbox, roleVars, canvasVars>>

\* fetch(GET /api/boards/:boardId) by the user of c, and the route's answer
FetchBoard(c) ==
    /\ Mounted(c)
    /\ loaded' = [loaded EXCEPT ![c] = GetBoard(boardOf[c], store[boardOf[c]])]
    /\ UNCHANGED <<srvVars, propVars, received, remoteCursors, chatMessages, sent,
                   typingVars, boardLoad, boardName, store, lastSave, inbox, roleVars,
                   canvasVars>>

\* the Host and a Viewer draw on the pages of the board, name it, save it
\* and load it
NextStore ==
    \/ \E c \in Conns : Receive(c)
    \/ \E c \in Conns, t \in Times : HandleMouseDown(c, t)
    \/ \E c \in Conns, t \in Times : HandleMouseUp(c, t)
    \/ \E c \in Conns, t \in PageTimes : AddPage(c, t)
    \/ \E c \in Conns, name \in BoardNames : SetBoardName(c, name)
    \/ \E c \in Conns : HandleSave(c)
    \/ \E c \in Conns : FetchBoard(c)

SpecStore == InitCanvas /\ [][NextStore]_vars

\* the tools of a session of additions
AddTools == {"pen", "sticky"}

\* the two participants only add: strokes and sticky notes are placed and
\* received
NextAdds ==
    \/ \E c \in Conns : Receive(c)
    \/ \E c \in Conns, t \in AddTools : SetTool(c, t)
    \/ \E c \in Conns, t \in Times : HandleMouseDown(c, t)
    \/ \E c \in Conns, t \in Times : HandleMouseUp(c, t)

SpecAdds == InitPeers /\ [][NextAdds]_vars

(***************************************************************************)
(* Room registry and relay properties                                      *)
(***************************************************************************)
\* the connections currently connected and associated with room b
Members(b) == {c \in Conns : status[c] = "connected" /\ currentRoom[c] = b}

\* C1: the member list of the most recent roomUsers broadcast of a room is
\* exactly the set of connected connections whose current room it is
C1_BroadcastListIsMembers ==
    \A b \in RoomIds : b \in DOMAIN lastRoomUsers => lastRoomUsers[b] = Members(b)

\* C2: roomUsers has an entry for a room id iff a connected connection is a
\* member of that room
C2_EntryIffMember ==
    \A b \in RoomIds : (b \in DOMAIN roomUsers) <=> (Members(b) # {})

\* C3: a relayed draw / addObject of member A of room R reaches exactly the
\* other members of R
C3_RelayToOtherMembers ==
    \A i \in 1..Len(srvOut) :
        srvOut[i].ev \in {"drawUpdate", "objectAdded"} =>
            srvOut[i].to = Members(srvOut[i].room) \ {srvOut[i].from}

\* C35: a connection is listed in the member mapping of at most one room,
\* that room is its current room, and it is in no other socket.io room
C35_ListedInCurrentRoomOnly ==
    \A c \in Conns : \A b \in RoomIds :
        (c \in Entry(roomUsers, b) \/ b \in sockRooms[c]) => currentRoom[c] = b

\* C36: a chatMessage that is delivered to somebody was sent by a
\* connection that has joined the room it is delivered to
C36_ChatFromJoinedRoomOnly ==
    \A i \in 1..Len(srvOut) :
        (srvOut[i].ev = "chatMessage" /\ srvOut[i].to # {}) =>
            srvOut[i].room \in sockRooms[srvOut[i].from]

\* C15: the events of a joinRoom for room b are a userJoined delivered to
\* the other members of b and a roomUsers delivered to all members of b, the
\* joiner included, that lists exactly the members of b
C15_JoinBroadcast ==
    (srvIn.ev = "joinRoom" /\ srvIn.room \in RoomIds) =>
        /\ Len(srvOut) = 2
        /\ srvOut[1].ev = "userJoined"
        /\ srvOut[1].to = Members(srvIn.room) \ {srvIn.from}
        /\ srvOut[2].ev = "roomUsers"
        /\ srvOut[2].to = Members(srvIn.room)
        /\ srvOut[2].users = Members(srvIn.room)

\* C17 as stated: the payload of a relayed drawUpdate, objectAdded or
\* chatMessage is the payload the sender emitted
C17_RelayedPayloadIdentical ==
    \A i \in 1..Len(srvOut) :
        (srvOut[i].ev \in {"drawUpdate", "objectAdded", "chatMessage"}
            /\ srvOut[i].to # {}) =>
                srvOut[i].data = srvIn.data

\* C17 amended: the payload of a relayed drawUpdate or objectAdded is the
\* payload the sender emitted, and the payload of a relayed chatMessage is
\* the emitted payload without its boardId field, every other field as
\* emitted
C17_RelayedPayloadKept ==
    \A i \in 1..Len(srvOut) :
        /\ srvOut[i].ev \in {"drawUpdate", "objectAdded"} =>
               srvOut[i].data = srvIn.data
        /\ srvOut[i].ev = "chatMessage" =>
               /\ DOMAIN srvOut[i].data = (DOMAIN srvIn.data) \ {"boardId"}
               /\ \A k \in DOMAIN srvOut[i].data : srvOut[i].data[k] = srvIn.data[k]

\* a chat message has been relayed to a member
C17_Witness ==
    /\ srvIn.ev = "chatMessage"
    /\ srvOut # << >>
    /\ srvOut[1].to # {}
    /\ srvOut[1].data.text = srvIn.data.text

\* C18: a cursorMove of C is relayed as a cursorUpdate to the other members
\* of C's room and not to C; the update names C and carries the x, y and
\* isDrawing of the cursorMove
C18_CursorRelay ==
    srvIn.ev = "cursorMove" =>
        \A i \in 1..Len(srvOut) :
            /\ srvOut[i].ev = "cursorUpdate"
            /\ srvOut[i].to = Members(srvOut[i].room) \ {srvIn.from}
            /\ srvOut[i].data.userId = srvIn.from
            /\ srvOut[i].data.x = srvIn.data.x
            /\ srvOut[i].data.y = srvIn.data.y
            /\ "isDrawing" \in DOMAIN srvOut[i].data
            /\ srvOut[i].data.isDrawing = srvIn.data.isDrawing

\* C19: the server keeps no value for a disconnected connection in the
\* entry of any room
C19_NoEntryForClosed ==
    \A c \in Conns : status[c] = "closed" =>
        \A b \in DOMAIN roomUsers : c \notin roomUsers[b]

\* an inbound event without a room id: a joinRoom or chatMessage whose
\* payload has no boardId, or a cursorMove, draw or addObject of a socket
\* that has no current room
Roomless(in, room) ==
    \/ in.ev \in {"joinRoom", "chatMessage"} /\ in.room = NoRoom
    \/ in.ev \in {"cursorMove", "draw", "addObject"} /\ room[in.from] = NoRoom

\* C20: a handler called with an event without a room id changes no server
\* state and emits nothing
C20_RoomlessDropped ==
    [][ (srvIn' # srvIn /\ Roomless(srvIn', currentRoom)) =>
            /\ srvOut' = << >>
            /\ UNCHANGED <<status, currentRoom, sockRooms, roomUsers, lastRoomUsers>> ]_vars

(***************************************************************************)
(* Permission properties (SpecPerm)                                        *)
(***************************************************************************)
PendingPermission(c) ==
    \E i \in 1..Len(inbox[c]) : inbox[c][i].ev = "drawPermission"

\* C4: when the Host grants draw to V, V receives drawPermission{granted:true}:
\* once no such event is in flight to V, V's draw capability is on
C4_GrantReachesTarget ==
    (/\ permHist.phase = "granted"
     /\ status[permHist.target] = "connected"
     /\ ~PendingPermission(permHist.target))
        => isAllowedToDraw[permHist.target]

\* C5: a connection that is not Host changes no allowed-set, a click of a
\* non-Host changes no capability and queues no notification, and a
\* capability is switched on only by a drawPermission event sent for a Host
C5_OnlyHostGrants ==
    [][ /\ \A c \in Conns : ~isHost[c] => allowedUserIds'[c] = allowedUserIds[c]
        /\ (permHist' # permHist /\ permHist'.phase = "denied")
              => UNCHANGED <<isAllowedToDraw, allowedUserIds, inbox>>
        /\ \A v \in Conns : (~isAllowedToDraw[v] /\ isAllowedToDraw'[v])
              => (/\ inbox[v] # << >>
                  /\ Head(inbox[v]).ev = "drawPermission"
                  /\ isHost[Head(inbox[v]).from]) ]_vars

\* a Viewer has clicked where the Allow button would be
C5_Witness ==
    /\ permHist.phase = "denied"
    /\ ~isHost[permHist.by]
    /\ permHist.target # permHist.by

\* C6: a grant to V followed by the revoke on V leaves the Host's allowed-set
\* and V's draw capability as they were before the grant, with no
\* notification left in flight to V (while the Host's Board is mounted)
C6_GrantRevokeIsBaseline ==
    (permHist.phase = "revoked" /\ status[permHist.by] = "connected") =>
        /\ allowedUserIds[permHist.by] = permHist.allowedBefore
        /\ isAllowedToDraw[permHist.target] = permHist.capBefore
        /\ ~PendingPermission(permHist.target)

C6_Witness ==
    /\ permHist.phase = "revoked"
    /\ status[permHist.by] = "connected"
    /\ status[permHist.target] = "connected"

\* C7: the allowed-draw set a Host holds lists only connections of the member
\* list the Host has last been sent
C7_AllowedSubsetOfMembers ==
    \A h \in Conns : status[h] = "connected" => allowedUserIds[h] \subseteq cliRoomUsers[h]

\* C16: the allowed-draw set and the remote cursors a Board holds reference
\* only connections of the member list the Board has last been sent: when
\* the roomUsers of a leave is handled, the grant and the cursor of the
\* leaver are gone
C16_NoReferenceToAbsent ==
    \A h \in Conns : status[h] = "connected" =>
        (allowedUserIds[h] \cup DOMAIN remoteCursors[h]) \subseteq cliRoomUsers[h]

\* C23: a Board that is Host is Host after every step in which it stays
\* mounted: grants, revokes, events of joins and leaves, the ownership answer
C23_HostStaysHost ==
    [][ \A c \in Conns : (isHost[c] /\ status'[c] # "closed") => isHost'[c] ]_vars

\* a Host has granted and revoked, has seen a member leave, and is Host
C23_Witness ==
    \E h \in Conns :
        /\ isHost[h]
        /\ status[h] = "connected"
        /\ permHist.phase = "revoked"
        /\ permHist.by = h
        /\ \E d \in Conns : status[d] = "closed"
        /\ inbox[h] = << >>

\* C24: at most one member of a room is Host
C24_OneHostPerRoom ==
    \A b \in RoomIds : Cardinality({c \in Members(b) : isHost[c]}) <= 1

\* C25: no Board's allowed-draw set holds a connection whose Board is Host
\* on the same board
C25_HostNotInAllowedSet ==
    \A h \in Conns : \A c \in allowedUserIds[h] :
        (status[h] = "connected" /\ status[c] = "connected" /\ boardOf[c] = boardOf[h])
            => ~isHost[c]

\* C26: a Board is Host only if the owner of the board it shows is the user
\* signed in at it; every other Board cannot draw unless a grant reached it
C26_HostOnlyIfOwner ==
    \A c \in Conns :
        /\ isHost[c] => boardOwner[boardOf[c]] = userOf[c]
        /\ boardOwner[boardOf[c]] # userOf[c] => (CanDraw(c) <=> isAllowedToDraw[c])

\* the owner's Board is Host and another user's Board of the same board,
\* whose ownership answer has arrived too, is not
C26_Witness ==
    \E h \in Conns, c \in Conns :
        /\ status[h] = "connected" /\ isHost[h]
        /\ status[c] = "connected" /\ hostCheck[c] = "done"
        /\ boardOf[c] = boardOf[h] /\ userOf[c] # userOf[h]
        /\ ~isHost[c] /\ ~CanDraw(c)

\* C27: a connected Board that has not joined yet can join whatever the
\* state of its ownership check, a Board whose check is pending is not Host,
\* and the owner's Board becomes Host (or unmounts first) when the load
\* succeeds
C27_TwoPhaseJoin ==
    /\ [](\A c \in Conns :
            /\ (status[c] = "connected" /\ mySocketId[c] = "") => ENABLED OnConnect(c)
            /\ hostCheck[c] = "pending" => ~isHost[c])
    /\ \A c \in Conns :
            (status[c] # "closed" /\ boardOwner[boardOf[c]] = userOf[c])
                ~> (isHost[c] \/ status[c] = "closed")

\* the owner's Board is a member of the room, listed at another Board, while
\* its ownership check is still pending
C27_Witness ==
    \E c \in Conns, d \in Conns :
        /\ d # c
        /\ c \in Members(boardOf[c])
        /\ boardOwner[boardOf[c]] = userOf[c]
        /\ hostCheck[c] = "pending"
        /\ ~CanDraw(c)
        /\ c \in cliRoomUsers[d]

C8_ViewerEmitsNothing ==
    ~cliOut.canDraw =>
        /\ ~cliOut.mutated
        /\ \A i \in 1..Len(cliOut.evs) :
              cliOut.evs[i] \notin {"draw", "addObject", "stickyUpdate"}

\* C9: an undo directly after a mutating action gives back the sequence the
\* action was applied to, and the undo stack has the depth it had before the
\* action
C9_UndoRestores ==
    [][ (hist.last \in Mutations /\ hist'.last = "undo" /\ hist'.c = hist.c) =>
            /\ ObjectsOf(pages'[hist.c], currentPageId'[hist.c]) = hist.base.objs
            /\ Len(undoStack'[hist.c]) = Len(hist.base.undo) ]_vars

\* C10: an undo with a non-empty undo stack directly followed by a redo gives
\* back the sequence, the undo stack and the redo stack of before the undo
C10_UndoRedoRestores ==
    hist.last = "redo" => Snap(hist.c) = hist.base

C10_Witness ==
    /\ hist.last = "redo"
    /\ hist.base.objs # << >>
    /\ Len(hist.base.undo) >= 2
    /\ Snap(hist.c) = hist.base

\* C11: directly after a stroke, shape, sticky, text, image or clear of a
\* Board, the redo stack of that Board is empty
C11_RedoEmptyAfterMutation ==
    hist.last \in Mutations => redoStack[hist.c] = << >>

\* a mutating action taken while the redo stack held a snapshot
C11_Witness ==
    /\ hist.last \in Mutations
    /\ hist.base.redo # << >>
    /\ redoStack[hist.c] = << >>

\* C14: an undo or redo of a Board emits nothing to the server and changes
\* no other Board's objects, undo stack or redo stack; and a drawUpdate or
\* objectAdded the server relays carries the object its sender appended to
\* its own page in the same step
C14_UndoRedoLocalOnly ==
    [][ /\ \A c \in Conns :
              (ops' = ops /\ undoStack'[c] # undoStack[c]) =>
                  /\ UNCHANGED <<srvVars, inbox>>
                  /\ \A d \in Conns \ {c} :
                        /\ pages'[d] = pages[d]
                        /\ undoStack'[d] = undoStack[d]
                        /\ redoStack'[d] = redoStack[d]
        /\ \A i \in 1..Len(srvOut') :
              (srvOut' # srvOut /\ srvOut'[i].ev \in {"drawUpdate", "objectAdded"}) =>
                  ObjectsOf(pages'[srvOut'[i].from], currentPageId'[srvOut'[i].from])
                      = Append(Objects(srvOut'[i].from), srvOut'[i].data) ]_vars

\* a Board has undone a step while another Board holds objects and the
\* server's last relay is still that of an authored object
C14_Witness ==
    /\ hist.last = "undo"
    /\ Objects(hist.c) # hist.base.objs
    /\ \E d \in Conns \ {hist.c} : Objects(d) # << >>
    /\ \E i \in 1..Len(srvOut) : srvOut[i].ev \in {"drawUpdate", "objectAdded"}

\* C38: an undo of a Board whose undo stack is empty, and a redo of a Board
\* whose redo stack is empty, change no Board's pages, undo stack or redo
\* stack, and nothing reaches the server or any Board
C38_EmptyStackNoOp ==
    [][ (hist' # hist /\ hist'.last \in NoOps) =>
            UNCHANGED <<pages, undoStack, redoStack, srvVars, inbox>> ]_vars

\* an undo was asked for on an empty undo stack while the Board held objects
\* and a snapshot to redo
C38_Witness ==
    /\ hist.last = "undo0"
    /\ hist.base.objs # << >>
    /\ hist.base.undo = << >>
    /\ hist.base.redo # << >>
    /\ Snap(hist.c) = hist.base

\* C32: undo and redo install on a page only what was on that page: no
\* object of a Board is on two of its pages (a stroke is appended to one
\* page, and only an installed snapshot can put it on another)
C32_SnapshotsStayOnTheirPage ==
    \A c \in Conns : \A p \in 1..Len(pages[c]) : \A q \in 1..Len(pages[c]) :
        p # q =>
            \A i \in 1..Len(pages[c][p].objects) : \A j \in 1..Len(pages[c][q].objects) :
                pages[c][p].objects[i].id # pages[c][q].objects[j].id

Places(pgs, id) ==
    Cardinality({pi \in (1..Len(pgs)) \X (1..MaxOps) :
                    /\ pi[2] <= Len(pgs[pi[1]].objects)
                    /\ pgs[pi[1]].objects[pi[2]].id = id})

\* C33: when a Board has handled a drawUpdate or objectAdded event, the
\* object is at exactly one place of its pages; and when its initial load
\* resolves, every object it has received and holds is still at one place
C33_ReceivedObjectsKept ==
    [][ \A c \in Conns :
          /\ received'[c] # received[c] =>
                \A o \in received'[c] \ received[c] : Places(pages'[c], o.id) = 1
          /\ (boardLoad[c] = "pending" /\ boardLoad'[c] = "done"
                  /\ status'[c] # "closed") =>
                \A o \in received[c] :
                    Places(pages[c], o.id) = 1 => Places(pages'[c], o.id) = 1 ]_vars

\* a step of Board c that changes objects of its pages without changing
\* their number or the undo stack: a sticky update
StickyUpdateStep(c) ==
    /\ pages'[c] # pages[c]
    /\ undoStack'[c] = undoStack[c]
    /\ Len(pages'[c]) = Len(pages[c])
    /\ \A p \in 1..Len(pages[c]) :
          Len(pages'[c][p].objects) = Len(pages[c][p].objects)

Placements == {"stroke", "shape", "sticky", "text"}

C21_StickyEditReachesPeers ==
    \A a \in Conns : \A d \in Members(currentRoom[a]) \ {a} :
        (/\ cliOut.by = a
         /\ \E k \in 1..Len(cliOut.evs) : cliOut.evs[k] = "stickyUpdate"
         /\ status[a] = "connected"
         /\ inbox[d] = << >>) =>
            \A i \in 1..Len(Objects(a)) : \A j \in 1..Len(Objects(d)) :
                (Objects(a)[i].type = "sticky" /\ Objects(d)[j].id = Objects(a)[i].id)
                    => Objects(d)[j].text = Objects(a)[i].text

\* the messages of log that socket a has sent
From(log, a) == SelectSeq(log, LAMBDA m : m.userId = a)

\* x can be had from y by leaving elements out
RECURSIVE IsSubSeq(_, _)
IsSubSeq(x, y) ==
    IF x = << >> THEN TRUE
    ELSE IF y = << >> THEN FALSE
    ELSE IF Head(x) = Head(y) THEN IsSubSeq(Tail(x), Tail(y))
    ELSE IsSubSeq(x, Tail(y))

\* C22: the chat log of a mounted Board holds each message the Board has
\* sent exactly once and in the order sent, and the log of every other
\* mounted Board holds each of these messages at most once, in that order
C22_ChatOnceInOrder ==
    \A a \in Conns : \A d \in Conns :
        /\ (d = a /\ Mounted(a)) => From(chatMessages[a], a) = sent[a]
        /\ (d # a /\ Mounted(d)) => IsSubSeq(From(chatMessages[d], a), sent[a])

\* a member has received the two messages another member sent
C22_Witness ==
    \E a \in Conns : \E d \in Conns \ {a} :
        /\ Len(sent[a]) = 2
        /\ sent[a][1] # sent[a][2]
        /\ From(chatMessages[d], a) = sent[a]
        /\ chatMessages[a] = sent[a]

(***************************************************************************)
(* Properties of two drawing participants (SpecPeers)                      *)
(***************************************************************************)
\* C12: no page of any Board holds two objects with the same id
C12_ObjectIdsUnique ==
    \A c \in Conns : \A p \in 1..Len(pages[c]) :
        \A i, j \in 1..Len(pages[c][p].objects) :
            i # j => pages[c][p].objects[i].id # pages[c][p].objects[j].id

\* the objects of a sequence, as a set
Range(s) == {s[i] : i \in 1..Len(s)}

\* C13: an undo or redo of a Board removes from its sequence no object that
\* the Board has received from a peer
C13_UndoKeepsPeerObjects ==
    [][ \A c \in Conns :
          (ops' = ops /\ undoStack'[c] # undoStack[c]) =>
              (Range(Objects(c)) \cap received[c])
                  \subseteq Range(ObjectsOf(pages'[c], currentPageId'[c])) ]_vars
\* C37: when no event is in flight to a member of the room, all members
\* hold the same set of objects
C37_SameObjectsWhenQuiet ==
    (\A c \in Members("r1") : inbox[c] = << >>) =>
        \A c \in Members("r1") : \A d \in Members("r1") :
            Range(Objects(c)) = Range(Objects(d))

\* both members have placed an object before receiving the other's: they
\* hold the same two objects in different orders
C37_Witness ==
    /\ \A c \in Members("r1") : inbox[c] = << >>
    /\ Len(Objects("c1")) = 2
    /\ Len(Objects("c2")) = 2
    /\ Objects("c1") # Objects("c2")
    /\ Range(Objects("c1")) = Range(Objects("c2"))

\* C39: a load of a board that follows a save of its owner with a board name
\* answers with the pages and the board name of that save
C39_SaveLoadRoundTrip ==
    \A c \in Conns :
        ( /\ lastSave.n > 0
          /\ lastSave.boardName # ""
          /\ loaded[c].boardId = lastSave.board
          /\ loaded[c].ownerId = lastSave.user
          /\ loaded[c].updatedAt = lastSave.n )
        => /\ loaded[c].pages = lastSave.pages
           /\ loaded[c].boardName = lastSave.boardName

====
